---- MODULE Spec2Model ----
(***************************************************************************)
(* Multi-Rack FG Stock Board (part_table_app.py): the session state of the *)
(* stock board (part master, racks, history, login), the spreadsheet store *)
(* behind it, and the rack operations Add / Subtract / FindPick.           *)
(*                                                                         *)
(* Representation of Python values:                                        *)
(*   None                      the string None == "<None>"                  *)
(*   a blank sheet cell        "" (read_sheet_to_df fills NaN with "")      *)
(*   a number that may be ""   <<>> for "", <<n>> for the number n          *)
(*   a list                    a sequence, index 0 of Python = index 1      *)
(*   a weight                  hundredths (8.05 is 805)                     *)
(*   a dict                    [order, at]: the keys in insertion order and *)
(*                             the value at each key                        *)
(*   a number in a text column "#" and its digits ("#10283026") for an int, *)
(*                             with ".0" ("#10283026.0") for a float        *)
(*                                                                         *)
(* A run of the script over a spreadsheet makes its requests one by one    *)
(* (sh.worksheet, get_as_dataframe, sh.del_worksheet, sh.add_worksheet,    *)
(* set_with_dataframe); each is a step, and the steps of another session   *)
(* and the edits of a person fall between them.                            *)
(***************************************************************************)
EXTENDS Integers, Sequences, FiniteSets, TLC

VARIABLES
    sh,           \* the spreadsheet: [open, titles, part_master, racks, history]
    initialized,  \* "initialized" in st.session_state
    part_master,  \* st.session_state.part_master
    racks,        \* st.session_state.racks
    history,      \* st.session_state.history (newest entry first)
    logged_in,    \* st.session_state.logged_in
    user,         \* st.session_state.user
    role,         \* st.session_state.role
    now,          \* the wall clock read by ts_now()
    last,         \* what the last step of the session reported: the operation
                  \* and its outcome
    chron,        \* the accepted rack mutations in order of occurrence
    peer,         \* a second browser session's st.session_state
    persisted,    \* the history entries whose racks and history writes succeeded
    faults,       \* the requests the spreadsheet may still answer with a failure
    run,          \* of each session, the run of the script under way: the
                  \* requests it has yet to make, the worksheet handle it
                  \* holds, and what it has read and written
    edits         \* the changes made to the spreadsheet by hand so far

vars == <<sh, initialized, part_master, racks, history, logged_in, user, role,
          now, last, chron, peer, persisted, faults, run, edits>>

----------------------------------------------------------------------------
(* Bounds of the exploration *)

\* entries the history may reach: without a spreadsheet, and over one
MaxHist == 4

MaxHistSheets == 2

\* requests that fail in one run of the model: of one session, and of two
MaxFaults == 1

MaxFaultsTwo == 1

\* changes made to the spreadsheet by hand
MaxEdits == 1

\* entries of the history while every user logs in and out
MaxHistAuth == 2

\* catalog changes in one session
MaxHistCatalog == 3

\* accepted mutations of a session that started from a saved history
MaxOpsStore == 2

----------------------------------------------------------------------------
(* Constants & racks config *)

None == "<None>"

PACKAGING_WEIGHT == 2500

CELL_CAPACITY_Smaller == 25 - 5

CELL_CAPACITY == 25

RACK_SPACES == [A |-> 9, B |-> 15, C |-> 12, D |-> 6, E |-> 24, F |-> 57]

FIXED_ROWS == 3

hash_pw(pw) == <<"sha256", pw>>

USERS ==
    [u \in {"Vishal", "Kittu", "1306764"} |->
        CASE u = "Vishal"  -> [pw_hash |-> hash_pw("master123"), role |-> "master"]
          [] u = "Kittu"   -> [pw_hash |-> hash_pw("input123"),  role |-> "input"]
          [] u = "1306764" -> [pw_hash |-> hash_pw("output123"), role |-> "output"]]

\* a plausible slip: the password is not compared
login_ok_AnyPassword(username, password) ==
    IF username \notin DOMAIN USERS
      THEN [ok |-> FALSE, role |-> None]
      ELSE [ok |-> TRUE, role |-> USERS[username].role]

login_ok(username, password) ==
    IF username \notin DOMAIN USERS
      THEN [ok |-> FALSE, role |-> None]
      ELSE [ok   |-> (USERS[username].pw_hash = hash_pw(password)),
            role |-> USERS[username].role]

\* str.strip(): of what is typed into the Username field, and of the Part No
\* and Rack cells of a row read from the spreadsheet
strip(text) ==
    CASE text = " Kittu "  -> "Kittu"
      [] text = "Vishal "  -> "Vishal"
      [] text = " "        -> ""
      [] text = " P1 "     -> "P1"
      [] text = "A "       -> "A"
      [] text = " B"       -> "B"
      [] OTHER             -> text

----------------------------------------------------------------------------
(* Default data structures *)

ceil_div(a, b) == (a + b - 1) \div b

EmptyCell == [PartNo |-> None, Quantity |-> 0]

\* d[key] = value on a dict: a new key goes to the end, a key the dict has
\* keeps its place
dict_set(d, key, value) ==
    [order |-> IF key \in DOMAIN d.at THEN d.order ELSE Append(d.order, key),
     at    |-> [k \in DOMAIN d.at \cup {key} |-> IF k = key THEN value ELSE d.at[k]]]

default_pm ==
    [order |-> <<"10283026", "10291078", "10282069">>,
     at    |->
        [pn \in {"10283026", "10291078", "10282069"} |->
            CASE pn = "10283026" -> [Weight |-> 805, Customer |-> "Mahindra Pune", TubeLength |-> 1254]
              [] pn = "10291078" -> [Weight |-> 790, Customer |-> "Mahindra Pune", TubeLength |-> 1245]
              [] pn = "10282069" -> [Weight |-> 895, Customer |-> "Mahindra Pune", TubeLength |-> 1262]]]

empty_racks ==
    [r \in DOMAIN RACK_SPACES |->
        [rows   |-> FIXED_ROWS,
         cols   |-> ceil_div(RACK_SPACES[r], FIXED_ROWS),
         array  |-> [i \in 0..(FIXED_ROWS - 1) |->
                       [j \in 0..(ceil_div(RACK_SPACES[r], FIXED_ROWS) - 1) |-> EmptyCell]],
         spaces |-> RACK_SPACES[r]]]

init_default_data_structures ==
    [part_master |-> default_pm, racks |-> empty_racks, history |-> <<>>]

----------------------------------------------------------------------------
(* Google Sheets helpers.  A worksheet is there when its title is among   *)
(* sh.titles; its table is the sequence of rows below the header, <<>>    *)
(* for a worksheet that is absent or has no cells.                        *)

RackOrder == <<"A", "B", "C", "D", "E", "F">>

Worksheets == {"part_master", "racks", "history"}

\* the reads: an exception, a frame without the blank rows of the grid,
\* and a frame that has them (they survive dropna, which runs after fillna)
ReadOutcomes == {"failed", "trimmed", "padded"}

\* the numbers that part numbers and user names of the board spell: the
\* digits as text, the int and the float of that value, and str() of the float
Numbers ==
    { [text |-> "10283026", int |-> "#10283026", float |-> "#10283026.0",
       float_text |-> "10283026.0"],
      [text |-> "10291078", int |-> "#10291078", float |-> "#10291078.0",
       float_text |-> "10291078.0"],
      [text |-> "10282069", int |-> "#10282069", float |-> "#10282069.0",
       float_text |-> "10282069.0"],
      [text |-> "10300001", int |-> "#10300001", float |-> "#10300001.0",
       float_text |-> "10300001.0"],
      [text |-> "1306764", int |-> "#1306764", float |-> "#1306764.0",
       float_text |-> "1306764.0"] }

\* the number a value spells or is, if any
NumberOf(v) == {n \in Numbers : v \in {n.text, n.int, n.float, n.float_text}}

\* value_input_option USER_ENTERED: a cell entered as text that reads as a
\* number, and a number, is stored as the number; the sheet has one kind of
\* number
sheet_number(v) ==
    IF NumberOf(v) = {} THEN v ELSE (CHOOSE n \in NumberOf(v) : TRUE).int

\* str() of a value read from the sheet: of an int its digits, of a float
\* its digits and ".0", of a text the text
py_str(v) ==
    IF \E n \in Numbers : v = n.int
      THEN (CHOOSE n \in Numbers : v = n.int).text
    ELSE IF \E n \in Numbers : v = n.float
      THEN (CHOOSE n \in Numbers : v = n.float).float_text
    ELSE v

\* the cell set_with_dataframe enters for a value of the frame: None is
\* entered as a blank cell, a numeric text as a number
user_entered(v) == IF v = None THEN "" ELSE sheet_number(v)

\* rows of the grid that add_worksheet creates for a table of n rows
worksheet_rows(n) == IF n + 10 > 100 THEN n + 10 ELSE 100

BlankRow(worksheet_name) ==
    CASE worksheet_name = "part_master" ->
           [PartNo |-> "", Weight |-> <<>>, Customer |-> "", TubeLength |-> <<>>]
      [] worksheet_name = "racks" ->
           [Rack |-> "", Row |-> <<>>, Col |-> <<>>, PartNo |-> "", Quantity |-> <<>>]
      [] worksheet_name = "history" ->
           [Timestamp |-> <<>>, User |-> "", Action |-> "", Rack |-> "",
            Row |-> <<>>, Col |-> <<>>, PartNo |-> "", Quantity |-> <<>>,
            Note |-> ""]

\* the type the parser gives a column of cells: when every cell that is not
\* blank reads as a number the column is numeric, of ints when no cell is
\* blank and of floats when one is (the blank is NaN); any other column keeps
\* its cells as they are
column_cell(cells, v) ==
    IF v = "" \/ cells \ {""} = {} \/ \E c \in cells \ {""} : NumberOf(c) = {}
      THEN v
      ELSE IF "" \in cells
             THEN (CHOOSE n \in NumberOf(v) : TRUE).float
             ELSE (CHOOSE n \in NumberOf(v) : TRUE).int

\* the rows below the header; with padded, down to the end of the grid.  The
\* columns of text that may hold numbers are typed by the parser.
get_as_dataframe(table, worksheet_name, padded) ==
    LET rows == IF padded
                  THEN table \o [k \in 1..(worksheet_rows(Len(table)) - 1 - Len(table)) |->
                                   BlankRow(worksheet_name)]
                  ELSE table
        parts     == {rows[k].PartNo : k \in 1..Len(rows)}
        users     == {rows[k].User : k \in 1..Len(rows)}
        customers == {rows[k].Customer : k \in 1..Len(rows)}
    IN  CASE worksheet_name = "part_master" ->
               [k \in 1..Len(rows) |->
                   [rows[k] EXCEPT !.PartNo = column_cell(parts, @),
                                   !.Customer = column_cell(customers, @)]]
          [] worksheet_name = "racks" ->
               [k \in 1..Len(rows) |->
                   [rows[k] EXCEPT !.PartNo = column_cell(parts, @)]]
          [] worksheet_name = "history" ->
               [k \in 1..Len(rows) |->
                   [rows[k] EXCEPT !.PartNo = column_cell(parts, @),
                                   !.User = column_cell(users, @)]]

\* sh.worksheet(worksheet_name) finds the worksheet of that title, or raises
worksheet(sheet, worksheet_name) == worksheet_name \in sheet.titles

\* the frame of one worksheet when the two requests of read_sheet_to_df
\* follow each other with nothing between them: empty when a request raises
\* or the worksheet is absent
read_sheet_to_df(sheet, worksheet_name, read) ==
    IF read = "failed" \/ ~worksheet(sheet, worksheet_name) THEN <<>>
    ELSE get_as_dataframe(sheet[worksheet_name], worksheet_name, read = "padded")

\* a plausible slip: the worksheet is cleared in place and keeps its rows
del_worksheet_Keeps(sheet, worksheet_name) == sheet

\* sh.del_worksheet(ws): the worksheet is gone, its rows with it
del_worksheet(sheet, worksheet_name) ==
    [sheet EXCEPT !.titles = @ \ {worksheet_name}, ![worksheet_name] = <<>>]

\* sh.add_worksheet(title = worksheet_name, ...): a worksheet without cells
add_worksheet(sheet, worksheet_name) ==
    [sheet EXCEPT !.titles = @ \cup {worksheet_name}, ![worksheet_name] = <<>>]

\* the cells of the header and of the rows of df are entered from the first
\* row down; the rows that the worksheet has below them stay
update_cells(rows, df) == df \o SubSeq(rows, Len(df) + 1, Len(rows))

\* set_with_dataframe(ws, df, ...) on the worksheet of that title
set_with_dataframe(sheet, worksheet_name, df) ==
    [sheet EXCEPT ![worksheet_name] = update_cells(@, df)]

\* the requests of one read_sheet_to_df, in their order: each is the
\* request, its worksheet and the function the read is made for
read_sheet_to_df_calls(worksheet_name, fn) ==
    << <<"worksheet", worksheet_name, fn>>,
       <<"get_as_dataframe", worksheet_name, fn>> >>

\* the requests of one write_df_to_sheet, in their order
write_df_to_sheet_calls(worksheet_name, fn) ==
    << <<"worksheet", worksheet_name, fn>>,
       <<"del_worksheet", worksheet_name, fn>>,
       <<"add_worksheet", worksheet_name, fn>>,
       <<"set_with_dataframe", worksheet_name, fn>> >>

\* the spreadsheet after the requests of one write_df_to_sheet, every one
\* succeeding and nothing between them
write_df_to_sheet(sheet, worksheet_name, df) ==
    LET deleted == IF worksheet(sheet, worksheet_name)
                     THEN del_worksheet(sheet, worksheet_name)
                     ELSE sheet
    IN  set_with_dataframe(add_worksheet(deleted, worksheet_name),
                           worksheet_name, df)

write_any_df_to_sheet(sheet, worksheet_name, df) ==
    write_df_to_sheet(sheet, worksheet_name, df)

----------------------------------------------------------------------------
(* load_all_from_sheets *)

\* the greatest element of a non-empty set of row numbers
Last(ks) == CHOOSE k \in ks : \A m \in ks : m <= k

\* the least element of a non-empty set of row numbers
First(ks) == CHOOSE k \in ks : \A m \in ks : k <= m

\* the dict the loop over the rows builds: the key of a row is str() of its
\* Part No, stripped; a row whose key is empty is passed over; a key stands
\* where its first row put it and a later row replaces what an earlier one
\* stored
load_part_master(pm_df) ==
    LET pn(k) == strip(py_str(pm_df[k].PartNo))
        meta(row) ==
            [Weight     |-> IF row.Weight # <<>> THEN row.Weight[1] ELSE 0,
             Customer   |-> row.Customer,
             TubeLength |-> IF row.TubeLength # <<>> THEN row.TubeLength[1] ELSE 0]
        keys == {pn(k) : k \in 1..Len(pm_df)} \ {""}
        first(key) == First({k \in 1..Len(pm_df) : pn(k) = key})
    IN  [order |-> [n \in 1..Cardinality(keys) |->
                      CHOOSE key \in keys :
                          Cardinality({other \in keys : first(other) < first(key)})
                            = n - 1],
         at    |-> [key \in keys |->
                      meta(pm_df[Last({k \in 1..Len(pm_df) : pn(k) = key})])]]

load_cell(row) ==
    [PartNo   |-> IF row.PartNo \notin {"", "None", None} THEN row.PartNo ELSE None,
     Quantity |-> IF row.Quantity # <<>> THEN row.Quantity[1] ELSE 0]

\* a plausible slip: the lower bounds are not tested, and Python takes the
\* index -1 for the last row or column
load_racks_Wraps(racks_df) ==
    [r \in DOMAIN empty_racks |->
        LET rows_of_r ==
                {k \in 1..Len(racks_df) :
                    /\ strip(py_str(racks_df[k].Rack)) = r
                    /\ racks_df[k].Row # <<>>
                    /\ racks_df[k].Col # <<>>}
        IN  [empty_racks[r] EXCEPT !.array =
                [i \in 0..(empty_racks[r].rows - 1) |->
                    [j \in 0..(empty_racks[r].cols - 1) |->
                        LET names == {k \in rows_of_r :
                                         /\ racks_df[k].Row[1] - 1
                                              \in {i, i - empty_racks[r].rows}
                                         /\ racks_df[k].Col[1] - 1
                                              \in {j, j - empty_racks[r].cols}}
                        IN  IF names = {}
                              THEN EmptyCell
                              ELSE load_cell(racks_df[Last(names)])]]]]

\* the grids the loop over the rows builds: the rack of a row is str() of
\* its Rack cell, stripped; the rows of an unknown rack, without a row or
\* column number, or outside the grid are passed over, and of the rows that
\* name one cell the last is kept
load_racks(racks_df) ==
    [r \in DOMAIN empty_racks |->
        LET rows_of_r ==
                {k \in 1..Len(racks_df) :
                    /\ strip(py_str(racks_df[k].Rack)) = r
                    /\ racks_df[k].Row # <<>>
                    /\ racks_df[k].Col # <<>>}
        IN  [empty_racks[r] EXCEPT !.array =
                [i \in 0..(empty_racks[r].rows - 1) |->
                    [j \in 0..(empty_racks[r].cols - 1) |->
                        LET names == {k \in rows_of_r :
                                         /\ racks_df[k].Row[1] - 1 = i
                                         /\ racks_df[k].Col[1] - 1 = j}
                        IN  IF names = {}
                              THEN EmptyCell
                              ELSE load_cell(racks_df[Last(names)])]]]]

\* a plausible slip: each row is inserted in front, as add_history does
load_history_Reversed(hist_df) ==
    [k \in 1..Len(hist_df) |->
        LET row == hist_df[Len(hist_df) + 1 - k]
        IN  [Timestamp |-> row.Timestamp,
             User      |-> row.User,
             Action    |-> row.Action,
             Rack      |-> row.Rack,
             Row       |-> IF row.Row # <<>> THEN row.Row[1] ELSE 0,
             Col       |-> IF row.Col # <<>> THEN row.Col[1] ELSE 0,
             PartNo    |-> row.PartNo,
             Quantity  |-> IF row.Quantity # <<>> THEN row.Quantity[1] ELSE 0,
             Note      |-> row.Note]]

load_history(hist_df) ==
    [k \in 1..Len(hist_df) |->
        [Timestamp |-> hist_df[k].Timestamp,
         User      |-> hist_df[k].User,
         Action    |-> hist_df[k].Action,
         Rack      |-> hist_df[k].Rack,
         Row       |-> IF hist_df[k].Row # <<>> THEN hist_df[k].Row[1] ELSE 0,
         Col       |-> IF hist_df[k].Col # <<>> THEN hist_df[k].Col[1] ELSE 0,
         PartNo    |-> hist_df[k].PartNo,
         Quantity  |-> IF hist_df[k].Quantity # <<>> THEN hist_df[k].Quantity[1] ELSE 0,
         Note      |-> hist_df[k].Note]]

\* what load_all_from_sheets returns when its reads follow each other with
\* nothing between them (the steps of a run take them request by request)
load_all_from_sheets(sheet, pm_read, racks_read, hist_read) ==
    IF ~sheet.open THEN init_default_data_structures
    ELSE [part_master |-> load_part_master(read_sheet_to_df(sheet, "part_master", pm_read)),
          racks       |-> load_racks(read_sheet_to_df(sheet, "racks", racks_read)),
          history     |-> load_history(read_sheet_to_df(sheet, "history", hist_read))]

----------------------------------------------------------------------------
(* save_all_to_sheets *)

\* pd.DataFrame(history): one row per entry, numbers as sheet numbers
history_df(hist) ==
    [k \in 1..Len(hist) |->
        [Timestamp |-> hist[k].Timestamp,
         User      |-> user_entered(hist[k].User),
         Action    |-> hist[k].Action,
         Rack      |-> hist[k].Rack,
         Row       |-> <<hist[k].Row>>,
         Col       |-> <<hist[k].Col>>,
         PartNo    |-> user_entered(hist[k].PartNo),
         Quantity  |-> <<hist[k].Quantity>>,
         Note      |-> hist[k].Note]]

rack_rows(rn, rack) ==
    [k \in 1..(rack.rows * rack.cols) |->
        LET i == (k - 1) \div rack.cols
            j == (k - 1) % rack.cols
            c == rack.array[i][j]
        IN  [Rack |-> rn, Row |-> <<i + 1>>, Col |-> <<j + 1>>,
             PartNo |-> user_entered(c.PartNo), Quantity |-> <<c.Quantity>>]]

RECURSIVE racks_df_from(_, _)
racks_df_from(rks, n) ==
    IF n = 0 THEN <<>>
    ELSE racks_df_from(rks, n - 1) \o rack_rows(RackOrder[n], rks[RackOrder[n]])

\* one row per key, in the order of part_master.items()
pm_rows_from(pm) ==
    [k \in 1..Len(pm.order) |->
        LET pn == pm.order[k]
        IN  [PartNo |-> user_entered(pn), Weight |-> <<pm.at[pn].Weight>>,
             Customer |-> user_entered(pm.at[pn].Customer),
             TubeLength |-> <<pm.at[pn].TubeLength>>]]

\* the spreadsheet after the three writes when every request succeeds and
\* nothing falls between them (the steps of a run take them request by
\* request, see save_all_to_sheets_calls)
save_all_to_sheets(sheet, pm, rks, hist) ==
    IF ~sheet.open THEN sheet
    ELSE LET s1 == write_any_df_to_sheet(sheet, "part_master", pm_rows_from(pm))
             s2 == write_any_df_to_sheet(s1, "racks",
                                         racks_df_from(rks, Len(RackOrder)))
         IN  write_any_df_to_sheet(s2, "history", history_df(hist))

\* the reads of load_all_from_sheets, in their order
load_all_from_sheets_calls ==
    read_sheet_to_df_calls("part_master", "load_all_from_sheets")
      \o read_sheet_to_df_calls("racks", "load_all_from_sheets")
      \o read_sheet_to_df_calls("history", "load_all_from_sheets")

\* the writes of save_all_to_sheets, in their order
save_all_to_sheets_calls ==
    write_df_to_sheet_calls("part_master", "save_all_to_sheets")
      \o write_df_to_sheet_calls("racks", "save_all_to_sheets")
      \o write_df_to_sheet_calls("history", "save_all_to_sheets")

----------------------------------------------------------------------------
(* Utility functions *)

ts_now == <<now>>

\* a plausible slip: the packaging is left out of the weight
cell_total_weight_NoPackaging(cell) ==
    LET pn  == cell.PartNo
        qty == cell.Quantity
    IN  IF qty > 0 /\ pn \notin {None, ""}
          THEN qty * (IF pn \in DOMAIN part_master.at
                        THEN part_master.at[pn].Weight ELSE 0)
          ELSE 0

\* part_master.get(pn, {}).get("Weight", 0.0): a part the part master does
\* not have weighs 0
cell_total_weight(cell) ==
    LET pn  == cell.PartNo
        qty == cell.Quantity
    IN  IF qty > 0 /\ pn \notin {None, ""}
          THEN qty * (IF pn \in DOMAIN part_master.at
                        THEN part_master.at[pn].Weight ELSE 0)
               + PACKAGING_WEIGHT
          ELSE 0

RECURSIVE sum_quantities(_, _)
sum_quantities(rack, k) ==
    IF k = 0 THEN 0
    ELSE sum_quantities(rack, k - 1)
         + rack.array[(k - 1) \div rack.cols][(k - 1) % rack.cols].Quantity

RECURSIVE total_qty_from(_, _)
total_qty_from(rks, n) ==
    IF n = 0 THEN 0
    ELSE total_qty_from(rks, n - 1)
         + sum_quantities(rks[RackOrder[n]],
                          rks[RackOrder[n]].rows * rks[RackOrder[n]].cols)

total_qty_all == total_qty_from(racks, Len(RackOrder))

HistoryEntry(action, rack, row_ui, col_ui, part_no, qty, usr, note) ==
    [Timestamp |-> ts_now, User |-> usr, Action |-> action, Rack |-> rack,
     Row |-> row_ui, Col |-> col_ui, PartNo |-> part_no, Quantity |-> qty,
     Note |-> note]

\* a plausible slip: row and column are passed in the wrong order
add_history_SwappedCoords(hist, action, rack, row_ui, col_ui, part_no, qty, usr, note) ==
    <<HistoryEntry(action, rack, col_ui, row_ui, part_no, qty, usr, note)>> \o hist

\* a plausible slip: the list is rebuilt from the new entry
add_history_Replaces(hist, action, rack, row_ui, col_ui, part_no, qty, usr, note) ==
    <<HistoryEntry(action, rack, row_ui, col_ui, part_no, qty, usr, note)>>

\* a plausible slip: the entry is written to the sheet but not kept in the session
add_history_NoInsert(hist, action, rack, row_ui, col_ui, part_no, qty, usr, note) ==
    hist

\* a plausible slip: list.append in place of list.insert(0, ...)
add_history_Appends(hist, action, rack, row_ui, col_ui, part_no, qty, usr, note) ==
    hist \o <<HistoryEntry(action, rack, row_ui, col_ui, part_no, qty, usr, note)>>

\* the history list after the insert; the write that follows it, when the
\* run has the spreadsheet, is the first of mutation_calls
add_history(hist, action, rack, row_ui, col_ui, part_no, qty, usr, note) ==
    LET entry == [Timestamp |-> ts_now,
                  User      |-> usr,
                  Action    |-> action,
                  Rack      |-> rack,
                  Row       |-> row_ui,
                  Col       |-> col_ui,
                  PartNo    |-> part_no,
                  Quantity  |-> qty,
                  Note      |-> note]
    IN  <<entry>> \o hist

\* a plausible slip: the entry is taken back when the write fails
add_history_written_Undone(hist, ok) == IF ok THEN hist ELSE Tail(hist)

\* the history list once the write of add_history has returned ok: the
\* value is dropped (`_ = write_any_df_to_sheet(...)`)
add_history_written(hist, ok) == hist

\* the requests of the write at the end of add_history, in a run that holds
\* `sheet`: none without the spreadsheet
add_history_calls(sheet) ==
    IF sheet.open THEN write_df_to_sheet_calls("history", "add_history") ELSE <<>>

\* the requests save_racks_and_pm makes in a run that holds `sheet`
save_racks_and_pm(sheet) ==
    IF sheet.open THEN save_all_to_sheets_calls ELSE <<>>

\* the requests of a mutation: add_history, then save_racks_and_pm
mutation_calls(sheet) == add_history_calls(sheet) \o save_racks_and_pm(sheet)

----------------------------------------------------------------------------
(* RackGrid: Add and Subtract *)

ValidCoordinate(rks, rack, row, col) ==
    /\ rack \in DOMAIN rks
    /\ 1 <= row /\ row <= rks[rack].rows
    /\ 1 <= col /\ col <= rks[rack].cols

CellAt(rks, rack, row, col) == rks[rack].array[row - 1][col - 1]

\* a plausible slip: the part held by the cell is not compared
AddOutcome_NoConflict(rks, rack, row, col, part, qty) ==
    IF ~ValidCoordinate(rks, rack, row, col) THEN "InvalidCoordinate"
    ELSE IF CellAt(rks, rack, row, col).Quantity + qty > CELL_CAPACITY
           THEN "CapacityExceeded"
           ELSE "ok"

AddOutcome(rks, rack, row, col, part, qty) ==
    IF ~ValidCoordinate(rks, rack, row, col) THEN "InvalidCoordinate"
    ELSE LET c == CellAt(rks, rack, row, col)
         IN  IF c.PartNo # None /\ c.PartNo # part THEN "Conflict"
             ELSE IF c.Quantity + qty > CELL_CAPACITY THEN "CapacityExceeded"
             ELSE "ok"

AddEffect(rks, rack, row, col, part, qty) ==
    [rks EXCEPT ![rack].array[row - 1][col - 1] =
        [PartNo |-> part, Quantity |-> @.Quantity + qty]]

\* a plausible slip: the quantity held by the cell is not compared
SubtractOutcome_NoQuantity(rks, rack, row, col, part, qty) ==
    IF ~ValidCoordinate(rks, rack, row, col) THEN "InvalidCoordinate"
    ELSE IF CellAt(rks, rack, row, col).PartNo # part THEN "Mismatch"
    ELSE "ok"

SubtractOutcome(rks, rack, row, col, part, qty) ==
    IF ~ValidCoordinate(rks, rack, row, col) THEN "InvalidCoordinate"
    ELSE LET c == CellAt(rks, rack, row, col)
         IN  IF c.PartNo # part \/ c.Quantity < qty THEN "Mismatch"
             ELSE "ok"

\* a plausible slip: an emptied cell keeps its part
SubtractEffect_KeepsPart(rks, rack, row, col, part, qty) ==
    [rks EXCEPT ![rack].array[row - 1][col - 1] =
        [PartNo |-> @.PartNo, Quantity |-> @.Quantity - qty]]

SubtractEffect(rks, rack, row, col, part, qty) ==
    [rks EXCEPT ![rack].array[row - 1][col - 1] =
        IF @.Quantity - qty = 0
          THEN [PartNo |-> None, Quantity |-> 0]
          ELSE [PartNo |-> @.PartNo, Quantity |-> @.Quantity - qty]]

----------------------------------------------------------------------------
(* FIFOResolver *)

NotFound == [Rack |-> None, Row |-> 0, Col |-> 0]

\* walks the stored list from its last entry (the oldest) to its first
RECURSIVE FindPickFrom(_, _, _, _)
FindPickFrom(rks, hist, part, k) ==
    IF k = 0 THEN NotFound
    ELSE LET e == hist[k]
         IN  IF /\ e.Action = "Add"
                /\ e.PartNo = part
                /\ ValidCoordinate(rks, e.Rack, e.Row, e.Col)
                /\ CellAt(rks, e.Rack, e.Row, e.Col).PartNo = part
                /\ CellAt(rks, e.Rack, e.Row, e.Col).Quantity > 0
               THEN [Rack |-> e.Rack, Row |-> e.Row, Col |-> e.Col]
               ELSE FindPickFrom(rks, hist, part, k - 1)

FindPick(rks, hist, part) == FindPickFrom(rks, hist, part, Len(hist))

----------------------------------------------------------------------------
(* Inputs *)

LoginInputs ==
    {<<"Kittu", "input123">>, <<"Kittu", "master123">>, <<"nobody", "input123">>}

\* two cells of rack A, and a column rack D does not have
CellInputs == {<<"A", 1, 1>>, <<"A", 2, 1>>, <<"D", 1, 3>>}

PartInputs == {"10283026", "10291078"}

QtyInputs == {5, 20}

\* the seconds the wall clock shows: it starts at 0, goes to 1 and may be
\* set back to 0
TimeInputs == {0, 1}

\* a clock that is not set back
LaterTimeInputs == {1}

NoSheet ==
    [open |-> FALSE, titles |-> {}, part_master |-> <<>>, racks |-> <<>>,
     history |-> <<>>]

RackRow(r, i, j, pn, q) ==
    [Rack |-> r, Row |-> i, Col |-> j, PartNo |-> pn, Quantity |-> q]

SavedHistory ==
    <<[Timestamp |-> <<0>>, User |-> "Kittu", Action |-> "Add", Rack |-> "A",
       Row |-> <<1>>, Col |-> <<1>>, PartNo |-> "10283026", Quantity |-> <<5>>,
       Note |-> ""]>>

SavedPartMaster ==
    <<[PartNo |-> "10283026", Weight |-> <<805>>, Customer |-> "Mahindra Pune",
       TubeLength |-> <<1254>>],
      [PartNo |-> "", Weight |-> <<>>, Customer |-> "", TubeLength |-> <<>>]>>

RacksTableInputs ==
    { <<>>,
      \* rows in the format of the save: a cell with a part and an empty cell
      <<RackRow("A", <<1>>, <<1>>, "10283026", <<5>>),
        RackRow("A", <<2>>, <<1>>, "", <<0>>)>>,
      \* rows the loader skips
      <<RackRow("Z", <<1>>, <<1>>, "10283026", <<5>>),
        RackRow("A", <<4>>, <<1>>, "10283026", <<5>>),
        RackRow("A", <<0>>, <<1>>, "10283026", <<5>>),
        RackRow("D", <<1>>, <<3>>, "10283026", <<5>>),
        RackRow("A", <<>>, <<1>>, "10283026", <<5>>),
        RackRow("", <<>>, <<>>, "", <<>>),
        RackRow("A", <<2>>, <<1>>, "None", <<>>)>>,
      \* rows edited in the spreadsheet: a quantity without a part, a part
      \* without a quantity, and more than a cell takes
      <<RackRow("A", <<1>>, <<1>>, "", <<5>>),
        RackRow("B", <<1>>, <<1>>, "10283026", <<>>),
        RackRow("A", <<2>>, <<1>>, "10291078", <<30>>)>> }

\* a part master edited in the spreadsheet: blanks around a part number, a
\* part number of blanks alone, and rows in an order of their own
EditedPartMaster ==
    <<[PartNo |-> " P1 ", Weight |-> <<100>>, Customer |-> "c1",
       TubeLength |-> <<10>>],
      [PartNo |-> " ", Weight |-> <<300>>, Customer |-> "c2",
       TubeLength |-> <<20>>],
      [PartNo |-> "10291078", Weight |-> <<790>>, Customer |-> "Mahindra Pune",
       TubeLength |-> <<1245>>],
      [PartNo |-> "10283026", Weight |-> <<805>>, Customer |-> "Mahindra Pune",
       TubeLength |-> <<1254>>]>>

\* racks edited in the spreadsheet: blanks around the name of the rack, and
\* a part the part master does not have
EditedRacks ==
    <<RackRow("A ", <<1>>, <<1>>, "P1", <<5>>),
      RackRow(" B", <<1>>, <<1>>, "P1", <<6>>),
      RackRow("C", <<1>>, <<1>>, "P2", <<7>>)>>

\* a history that another session has saved meanwhile: two entries
EditedHistory ==
    <<[Timestamp |-> <<1>>, User |-> "Vishal", Action |-> "Add", Rack |-> "C",
       Row |-> <<1>>, Col |-> <<1>>, PartNo |-> "P2", Quantity |-> <<7>>,
       Note |-> ""],
      [Timestamp |-> <<0>>, User |-> "Kittu", Action |-> "Add", Rack |-> "A",
       Row |-> <<1>>, Col |-> <<1>>, PartNo |-> "P1", Quantity |-> <<5>>,
       Note |-> ""]>>

\* what a worksheet holds after it was changed from outside the session
Edited ==
    [part_master |-> EditedPartMaster, racks |-> EditedRacks,
     history |-> EditedHistory]

\* the spreadsheets a session starts over: one whose racks and history are
\* still empty, and ones with a history of one entry
SheetInputs ==
    { [open |-> TRUE, titles |-> Worksheets, part_master |-> SavedPartMaster,
       racks |-> t, history |-> IF t = <<>> THEN <<>> ELSE SavedHistory] :
        t \in RacksTableInputs }

\* gc.open_by_url of one run: when a spreadsheet is configured it opens or
\* raises
ConnectOutcomes(store) == IF store.open THEN {"ok", "failed"} ELSE {"ok"}

\* the module-level sh of one run of the script: the spreadsheet, or None
\* (open = FALSE) when none is configured or the client could not be made.
\* Every run of the script makes it anew.
gspread_client_from_secrets(store, connect) ==
    IF store.open /\ connect = "ok" THEN store ELSE [store EXCEPT !.open = FALSE]

\* a request that would be served is served or fails; one that cannot be
\* served (no such worksheet, a title in use) raises
RequestOutcomes(served) == IF served THEN {"ok", "failed"} ELSE {"raised"}

\* how many of the outcomes are failures
RECURSIVE Failures(_)
Failures(outcomes) ==
    IF outcomes = <<>> THEN 0
    ELSE (IF Head(outcomes) = "failed" THEN 1 ELSE 0)
         + Failures(Tail(outcomes))

NoRequest == [op |-> "none", outcome |-> ""]

Request(op, outcome) == [op |-> op, outcome |-> outcome]

Event(action, rack, row, col, part, qty) ==
    [Action |-> action, Rack |-> rack, Row |-> row, Col |-> col,
     PartNo |-> part, Quantity |-> qty]

----------------------------------------------------------------------------
(* The session *)

Sessions == {"main", "peer"}

NoData == [part_master |-> <<>>, racks |-> <<>>, history |-> <<>>]

\* no run of the script is under way
Idle ==
    [calls |-> <<>>, handle |-> "none", got |-> NoData, wrote |-> {}]

\* the second session before its first run
PeerUninitialized ==
    [initialized |-> FALSE, part_master |-> <<>>, racks |-> <<>>, history |-> <<>>,
     logged_in |-> FALSE, user |-> None, role |-> None, chron |-> <<>>]

Uninitialized ==
    /\ initialized = FALSE
    /\ part_master = <<>>
    /\ racks = <<>>
    /\ history = <<>>
    /\ logged_in = FALSE
    /\ user = None
    /\ role = None
    /\ now = 0
    /\ last = NoRequest
    /\ chron = <<>>
    /\ peer = PeerUninitialized
    /\ persisted = {}
    /\ run = [s \in Sessions |-> Idle]
    /\ edits = 0

\* no spreadsheet configured
Init == sh = NoSheet /\ faults = 0 /\ Uninitialized

\* a spreadsheet is configured
InitSheets == sh \in SheetInputs /\ faults = MaxFaults /\ Uninitialized

\* st.session_state of a session
Session(s) ==
    IF s = "main"
      THEN [initialized |-> initialized, part_master |-> part_master,
            racks |-> racks, history |-> history, logged_in |-> logged_in,
            user |-> user, role |-> role, chron |-> chron]
      ELSE peer

SetSession(s, state) ==
    IF s = "main"
      THEN /\ initialized' = state.initialized
           /\ part_master' = state.part_master
           /\ racks' = state.racks
           /\ history' = state.history
           /\ logged_in' = state.logged_in
           /\ user' = state.user
           /\ role' = state.role
           /\ chron' = state.chron
           /\ peer' = peer
      ELSE /\ peer' = state
           /\ UNCHANGED <<initialized, part_master, racks, history, logged_in,
                          user, role, chron>>

\* what the step of a session reports
Report(s, report) == last' = IF s = "main" THEN report ELSE last

\* the session state that the first run sets from the data it got
Initialize(state, data) ==
    [state EXCEPT !.part_master = data.part_master,
                  !.racks = data.racks,
                  !.history = data.history,
                  !.logged_in = FALSE,
                  !.user = None,
                  !.role = None,
                  !.initialized = TRUE]

\* what load_all_from_sheets makes of the frame of one worksheet
Loaded(worksheet_name, df) ==
    CASE worksheet_name = "part_master" -> load_part_master(df)
      [] worksheet_name = "racks"       -> load_racks(df)
      [] worksheet_name = "history"     -> load_history(df)

\* the frame the session writes to one worksheet
Frame(state, worksheet_name) ==
    CASE worksheet_name = "part_master" -> pm_rows_from(state.part_master)
      [] worksheet_name = "racks"       -> racks_df_from(state.racks, Len(RackOrder))
      [] worksheet_name = "history"     -> history_df(state.history)

\* the first run of the script in a session: the client is made; without
\* the spreadsheet the session takes the defaults, with it the run goes on
\* to the reads of load_all_from_sheets
SessionInit(s) ==
    /\ ~Session(s).initialized
    /\ run[s].calls = <<>>
    /\ \E connect \in ConnectOutcomes(sh) :
         LET sheet == gspread_client_from_secrets(sh, connect)
         IN  /\ Failures(<<connect>>) <= faults
             /\ faults' = faults - Failures(<<connect>>)
             /\ IF sheet.open
                  THEN /\ run' = [run EXCEPT ![s].calls = load_all_from_sheets_calls]
                       /\ SetSession(s, Session(s))
                  ELSE /\ run' = run
                       /\ SetSession(s, Initialize(Session(s),
                                                   init_default_data_structures))
    /\ Report(s, NoRequest)
    /\ UNCHANGED <<sh, now, persisted, edits>>

Login(s, username, password) ==
    /\ Session(s).initialized
    /\ ~Session(s).logged_in
    /\ run[s].calls = <<>>
    /\ LET r == login_ok(strip(username), password)
       IN  IF r.ok
             THEN SetSession(s, [Session(s) EXCEPT !.logged_in = TRUE,
                                                   !.user = strip(username),
                                                   !.role = r.role])
             ELSE SetSession(s, Session(s))
    /\ Report(s, NoRequest)
    /\ UNCHANGED <<sh, now, persisted, faults, run, edits>>

Logout(s) ==
    /\ Session(s).initialized
    /\ Session(s).logged_in
    /\ run[s].calls = <<>>
    /\ SetSession(s, [Session(s) EXCEPT !.logged_in = FALSE,
                                        !.user = None,
                                        !.role = None])
    /\ Report(s, NoRequest)
    /\ UNCHANGED <<sh, now, persisted, faults, run, edits>>

\* Permissions, computed on each run that gets past the login
can_master == role = "master"

\* a plausible slip: the master role is left out of the input permission
can_input_OnlyInput == role = "input"

can_input == role \in {"master", "input"}

can_output == role \in {"master", "input", "output"}

\* the local wall clock shows another second: a later one, or an earlier one
\* when the clock is set back
Tick(t) ==
    /\ t # now
    /\ now' = t
    /\ last' = NoRequest
    /\ UNCHANGED <<sh, initialized, part_master, racks, history, logged_in, user,
                   role, chron, peer, persisted, faults, run, edits>>

\* an Add in a session: the racks and the history of the session change at
\* once, and the run goes on to the writes when it has the spreadsheet
Add(s, rack, row, col, part, qty) ==
    /\ Session(s).initialized
    /\ Session(s).logged_in
    /\ run[s].calls = <<>>
    /\ LET state == Session(s)
           out   == AddOutcome(state.racks, rack, row, col, part, qty)
       IN  /\ IF out = "ok"
                THEN \E connect \in ConnectOutcomes(sh) :
                       LET sheet == gspread_client_from_secrets(sh, connect)
                       IN  /\ Failures(<<connect>>) <= faults
                           /\ faults' = faults - Failures(<<connect>>)
                           /\ SetSession(s, [state EXCEPT
                                  !.racks = AddEffect(@, rack, row, col, part, qty),
                                  !.history = add_history(@, "Add", rack, row, col,
                                                          part, qty, state.user, ""),
                                  !.chron = Append(@, Event("Add", rack, row, col,
                                                            part, qty))])
                           /\ run' = [run EXCEPT ![s].calls = mutation_calls(sheet)]
                ELSE /\ SetSession(s, state)
                     /\ UNCHANGED <<faults, run>>
           /\ Report(s, Request("Add", out))
    /\ UNCHANGED <<sh, now, persisted, edits>>

Subtract(s, rack, row, col, part, qty) ==
    /\ Session(s).initialized
    /\ Session(s).logged_in
    /\ run[s].calls = <<>>
    /\ LET state == Session(s)
           out   == SubtractOutcome(state.racks, rack, row, col, part, qty)
       IN  /\ IF out = "ok"
                THEN \E connect \in ConnectOutcomes(sh) :
                       LET sheet == gspread_client_from_secrets(sh, connect)
                       IN  /\ Failures(<<connect>>) <= faults
                           /\ faults' = faults - Failures(<<connect>>)
                           /\ SetSession(s, [state EXCEPT
                                  !.racks = SubtractEffect(@, rack, row, col, part, qty),
                                  !.history = add_history(@, "Subtract", rack, row, col,
                                                          part, qty, state.user, ""),
                                  !.chron = Append(@, Event("Subtract", rack, row, col,
                                                            part, qty))])
                           /\ run' = [run EXCEPT ![s].calls = mutation_calls(sheet)]
                ELSE /\ SetSession(s, state)
                     /\ UNCHANGED <<faults, run>>
           /\ Report(s, Request("Subtract", out))
    /\ UNCHANGED <<sh, now, persisted, edits>>

----------------------------------------------------------------------------
(* The requests of a run *)

\* a read ends with the frame df and `rest` left to request: what the
\* loader makes of the frame is kept, and the last read ends the first run
ReadDone(s, df, rest) ==
    LET call == Head(run[s].calls)
        got  == [run[s].got EXCEPT ![call[2]] = Loaded(call[2], df)]
    IN  IF rest = <<>>
          THEN /\ SetSession(s, Initialize(Session(s), got))
               /\ run' = [run EXCEPT ![s].calls = rest,
                                     ![s].handle = "none",
                                     ![s].got = NoData]
          ELSE /\ SetSession(s, Session(s))
               /\ run' = [run EXCEPT ![s].calls = rest,
                                     ![s].handle = "none",
                                     ![s].got = got]

\* a write returns ok (True or False) with `rest` left to request; the last
\* write ends the run
WriteDone(s, ok, rest) ==
    LET call  == Head(run[s].calls)
        state == Session(s)
    IN  /\ SetSession(s, [state EXCEPT !.history =
                              IF call[3] = "add_history"
                                THEN add_history_written(@, ok)
                                ELSE @])
        /\ run' = [run EXCEPT ![s].calls = rest,
                              ![s].handle = "none",
                              ![s].wrote = IF rest = <<>> THEN {}
                                           ELSE IF ok THEN @ \cup {call[2]}
                                           ELSE @ \ {call[2]}]
        /\ persisted' =
              IF /\ rest = <<>>
                 /\ ok
                 /\ "racks" \in run[s].wrote
                 /\ state.history # <<>>
                THEN persisted \cup {state.history[1]}
                ELSE persisted

\* ws = sh.worksheet(worksheet_name), of a read (line 82) and of a write
\* (line 98).  Found, the run holds the worksheet; when it raises, the read
\* gives an empty frame and the write goes on to add_worksheet
Worksheet(s) ==
    /\ run[s].calls # <<>>
    /\ Head(run[s].calls)[1] = "worksheet"
    /\ LET call == Head(run[s].calls)
           rest == Tail(run[s].calls)
       IN  \E outcome \in RequestOutcomes(worksheet(sh, call[2])) :
             /\ Failures(<<outcome>>) <= faults
             /\ faults' = faults - Failures(<<outcome>>)
             /\ IF outcome = "ok"
                  THEN /\ run' = [run EXCEPT ![s].calls = rest,
                                             ![s].handle = "held"]
                       /\ SetSession(s, Session(s))
                  ELSE IF call[3] = "load_all_from_sheets"
                    THEN ReadDone(s, <<>>, Tail(rest))
                    ELSE /\ run' = [run EXCEPT ![s].calls = Tail(rest),
                                               ![s].handle = "none"]
                         /\ SetSession(s, Session(s))
    /\ Report(s, NoRequest)
    /\ UNCHANGED <<sh, now, persisted, edits>>

\* get_as_dataframe(ws, ...), line 83.  The worksheet the run holds gives
\* its rows, with or without the blank rows of the grid, or the request
\* fails.  When the worksheet was deleted since, the request raises, or it
\* gives the rows of the worksheet that now has the title (the values are
\* asked for by title)
GetAsDataframe(s, frames) ==
    /\ run[s].calls # <<>>
    /\ Head(run[s].calls)[1] = "get_as_dataframe"
    /\ LET call == Head(run[s].calls)
           rest == Tail(run[s].calls)
           outcomes ==
               IF run[s].handle = "held"
                 THEN frames \cup {"failed"}
                 ELSE (IF worksheet(sh, call[2]) THEN frames ELSE {}) \cup {"raised"}
       IN  \E read \in outcomes :
             /\ Failures(<<read>>) <= faults
             /\ faults' = faults - Failures(<<read>>)
             /\ ReadDone(s,
                         IF read \in frames
                           THEN get_as_dataframe(sh[call[2]], call[2], read = "padded")
                           ELSE <<>>,
                         rest)
    /\ Report(s, NoRequest)
    /\ UNCHANGED <<sh, now, persisted, edits>>

\* sh.del_worksheet(ws), line 99: the worksheet the run holds is deleted, or
\* the request fails; it raises when the worksheet was deleted since.  The
\* write goes on to add_worksheet in every case (except: pass).  A handle
\* that another run holds on the deleted worksheet is stale from now on
DelWorksheet(s) ==
    /\ run[s].calls # <<>>
    /\ Head(run[s].calls)[1] = "del_worksheet"
    /\ LET call == Head(run[s].calls)
           rest == Tail(run[s].calls)
       IN  \E outcome \in RequestOutcomes(run[s].handle = "held") :
             /\ Failures(<<outcome>>) <= faults
             /\ faults' = faults - Failures(<<outcome>>)
             /\ sh' = IF outcome = "ok" THEN del_worksheet(sh, call[2]) ELSE sh
             /\ run' = [o \in Sessions |->
                          IF o = s
                            THEN [run[s] EXCEPT !.calls = rest,
                                                !.handle = "none"]
                          ELSE IF /\ outcome = "ok"
                                  /\ run[o].calls # <<>>
                                  /\ Head(run[o].calls)[2] = call[2]
                                  /\ run[o].handle = "held"
                            THEN [run[o] EXCEPT !.handle = "stale"]
                            ELSE run[o]]
    /\ SetSession(s, Session(s))
    /\ Report(s, NoRequest)
    /\ UNCHANGED <<now, persisted, edits>>

\* ws = sh.add_worksheet(title = worksheet_name, ...), line 102: raises
\* when a worksheet has the title, and then the write returns False
AddWorksheet(s) ==
    /\ run[s].calls # <<>>
    /\ Head(run[s].calls)[1] = "add_worksheet"
    /\ LET call == Head(run[s].calls)
           rest == Tail(run[s].calls)
       IN  \E outcome \in RequestOutcomes(~worksheet(sh, call[2])) :
             /\ Failures(<<outcome>>) <= faults
             /\ faults' = faults - Failures(<<outcome>>)
             /\ IF outcome = "ok"
                  THEN /\ sh' = add_worksheet(sh, call[2])
                       /\ run' = [run EXCEPT ![s].calls = rest,
                                             ![s].handle = "held"]
                       /\ SetSession(s, Session(s))
                       /\ persisted' = persisted
                  ELSE /\ sh' = sh
                       /\ WriteDone(s, FALSE, Tail(rest))
    /\ Report(s, NoRequest)
    /\ UNCHANGED <<now, edits>>

\* set_with_dataframe(ws, df, ...), line 103: the frame of the session is
\* entered in the worksheet the run holds, or the request fails.  When the
\* worksheet was deleted since, the request raises, or the cells are entered
\* in the worksheet that now has the title (the values are sent by title)
SetWithDataframe(s) ==
    /\ run[s].calls # <<>>
    /\ Head(run[s].calls)[1] = "set_with_dataframe"
    /\ LET call == Head(run[s].calls)
           rest == Tail(run[s].calls)
           outcomes ==
               IF run[s].handle = "held"
                 THEN {"ok", "failed"}
                 ELSE (IF worksheet(sh, call[2]) THEN {"ok"} ELSE {}) \cup {"raised"}
       IN  \E outcome \in outcomes :
             /\ Failures(<<outcome>>) <= faults
             /\ faults' = faults - Failures(<<outcome>>)
             /\ sh' = IF outcome = "ok"
                        THEN set_with_dataframe(sh, call[2],
                                                Frame(Session(s), call[2]))
                        ELSE sh
             /\ WriteDone(s, outcome = "ok", rest)
    /\ Report(s, NoRequest)
    /\ UNCHANGED <<now, edits>>

\* the next request of the run under way in a session
Requests(s, frames) ==
    \/ Worksheet(s)
    \/ GetAsDataframe(s, frames)
    \/ DelWorksheet(s)
    \/ AddWorksheet(s)
    \/ SetWithDataframe(s)

\* the spreadsheet is changed from outside the session, by a person in the
\* spreadsheet or by the save of a session elsewhere: the worksheets it has
\* get the contents of Edited, between any two requests of the session
Edit ==
    /\ sh.open
    /\ edits < MaxEdits
    /\ \E n \in sh.titles : sh[n] # Edited[n]
    /\ sh' = [n \in DOMAIN sh |-> IF n \in sh.titles THEN Edited[n] ELSE sh[n]]
    /\ edits' = edits + 1
    /\ last' = NoRequest
    /\ UNCHANGED <<initialized, part_master, racks, history, logged_in, user,
                   role, now, chron, peer, persisted, faults, run>>

Next ==
    \/ SessionInit("main")
    \/ \E c \in LoginInputs : Login("main", c[1], c[2])
    \/ Logout("main")
    \/ \E t \in LaterTimeInputs : Tick(t)
    \/ /\ Len(history) < MaxHist
       /\ \E c \in CellInputs, p \in PartInputs, q \in QtyInputs :
            Add("main", c[1], c[2], c[3], p, q)
    \/ /\ Len(history) < MaxHist
       /\ \E c \in CellInputs, p \in PartInputs, q \in QtyInputs :
            Subtract("main", c[1], c[2], c[3], p, q)

\* the same session over a spreadsheet, on one cell
NextSheets ==
    \/ SessionInit("main")
    \/ \E c \in LoginInputs : Login("main", c[1], c[2])
    \/ Logout("main")
    \/ /\ Len(history) < MaxHistSheets
       /\ \E q \in QtyInputs : Add("main", "A", 1, 1, "10283026", q)
    \/ /\ Len(history) < MaxHistSheets
       /\ \E q \in QtyInputs : Subtract("main", "A", 1, 1, "10283026", q)
    \/ Requests("main", {"trimmed", "padded"})
    \/ Edit

Spec == Init /\ [][Next]_vars

SpecSheets == InitSheets /\ [][NextSheets]_vars

----------------------------------------------------------------------------
(* Properties *)

\* the 1-based coordinates of every cell of every rack
AllCells(rks) ==
    UNION { {<<r, row, col>> : row \in 1..rks[r].rows, col \in 1..rks[r].cols} :
            r \in DOMAIN rks }

\* the shape of the racks never changes, so neither do the coordinates
CellCoords == AllCells(empty_racks)

\* rks2 differs from rks1 in the contents of cell at most
OtherCellsSame(rks1, rks2, cell) ==
    rks2 = [rks1 EXCEPT ![cell[1]].array[cell[2] - 1][cell[3] - 1] =
                CellAt(rks2, cell[1], cell[2], cell[3])]

\* C1: in every reachable state, also after loading the racks from the
\* spreadsheet, every cell has Quantity = 0 exactly when its Part No is None,
\* and 0 <= Quantity <= 25.
C1_CellInvariant ==
    initialized =>
        \A c \in CellCoords :
            LET cell == CellAt(racks, c[1], c[2], c[3])
            IN  /\ (cell.Quantity = 0) <=> (cell.PartNo = None)
                /\ 0 <= cell.Quantity
                /\ cell.Quantity <= 25

\* C2: an Add on a cell that holds a different part reports Conflict and leaves
\* the racks and the history as they were.
C2_AddConflict ==
    [][\A c \in CellInputs, p \in PartInputs, q \in QtyInputs :
          ( /\ last'.op = "Add"
            /\ ValidCoordinate(racks, c[1], c[2], c[3])
            /\ CellAt(racks, c[1], c[2], c[3]).PartNo \notin {None, p}
            /\ Add("main", c[1], c[2], c[3], p, q) )
          => ( /\ last' = Request("Add", "Conflict")
               /\ racks' = racks
               /\ history' = history )]_vars

C2_Witness ==
    /\ last = Request("Add", "Conflict")
    /\ history # <<>>
    /\ \E c \in CellCoords :
         /\ CellAt(racks, c[1], c[2], c[3]).Quantity > 0
         /\ CellAt(racks, c[1], c[2], c[3]).PartNo # None

\* C3: an Add on a cell that is empty or holds the same part is accepted exactly
\* when the cell's quantity plus qty is at most 25 (25 itself is accepted);
\* otherwise it reports CapacityExceeded and leaves racks and history unchanged.
C3_AddCapacity ==
    [][\A c \in CellInputs, p \in PartInputs, q \in QtyInputs :
          ( /\ last'.op = "Add"
            /\ ValidCoordinate(racks, c[1], c[2], c[3])
            /\ CellAt(racks, c[1], c[2], c[3]).PartNo \in {None, p}
            /\ Add("main", c[1], c[2], c[3], p, q) )
          => IF CellAt(racks, c[1], c[2], c[3]).Quantity + q <= 25
               THEN /\ last' = Request("Add", "ok")
                    /\ CellAt(racks', c[1], c[2], c[3]) =
                         [PartNo |-> p,
                          Quantity |-> CellAt(racks, c[1], c[2], c[3]).Quantity + q]
               ELSE /\ last' = Request("Add", "CapacityExceeded")
                    /\ racks' = racks
                    /\ history' = history]_vars

\* a cell was filled to exactly 25 and the next Add was refused
C3_Witness ==
    /\ last = Request("Add", "CapacityExceeded")
    /\ \E c \in CellCoords : CellAt(racks, c[1], c[2], c[3]).Quantity = 25

\* C4: a Subtract reports Mismatch when the cell holds another part or none and
\* when it holds the part with less than qty, leaving racks and history
\* unchanged; it is accepted whenever the cell holds the part with at least qty.
\* For every request whose outcome the step reports, either the report is
\* the one the cell calls for or the step is not that request.
C4_SubtractMismatch ==
    [][last'.op = "Subtract" =>
          LET same == racks' = racks /\ history' = history
          IN  \A c \in CellInputs, p \in PartInputs, q \in QtyInputs :
                 ( /\ ValidCoordinate(racks, c[1], c[2], c[3])
                   /\ last'.outcome = SubtractOutcome(racks, c[1], c[2], c[3], p, q) )
                 => \/ IF /\ CellAt(racks, c[1], c[2], c[3]).PartNo = p
                          /\ CellAt(racks, c[1], c[2], c[3]).Quantity >= q
                         THEN last' = Request("Subtract", "ok")
                         ELSE last' = Request("Subtract", "Mismatch") /\ same
                    \/ ~Subtract("main", c[1], c[2], c[3], p, q)]_vars

\* a Subtract was refused although some cell holds stock
C4_Witness ==
    /\ last = Request("Subtract", "Mismatch")
    /\ \E c \in CellCoords : CellAt(racks, c[1], c[2], c[3]).Quantity > 0

\* C5: an accepted Subtract lowers the cell's quantity by exactly qty and resets
\* the part to None when the quantity reaches 0; Add(c, p, q) on an empty cell
\* followed by Subtract(c, p, q) gives the empty cell back; neither operation
\* changes another cell.
C5_SubtractEffect ==
    [][\A c \in CellInputs, p \in PartInputs, q \in QtyInputs :
          /\ (last' = Request("Subtract", "ok") /\ Subtract("main", c[1], c[2], c[3], p, q))
             => /\ CellAt(racks', c[1], c[2], c[3]).Quantity =
                     CellAt(racks, c[1], c[2], c[3]).Quantity - q
                /\ CellAt(racks', c[1], c[2], c[3]).PartNo =
                     IF CellAt(racks, c[1], c[2], c[3]).Quantity = q THEN None ELSE p
                /\ OtherCellsSame(racks, racks', c)
          /\ (last' = Request("Add", "ok") /\ Add("main", c[1], c[2], c[3], p, q))
             => OtherCellsSame(racks, racks', c)
          /\ ( /\ last'.op = "Subtract"
               /\ chron # <<>>
               /\ chron[Len(chron)] = Event("Add", c[1], c[2], c[3], p, q)
               /\ CellAt(racks, c[1], c[2], c[3]) = [PartNo |-> p, Quantity |-> q]
               /\ Subtract("main", c[1], c[2], c[3], p, q) )
             => /\ last' = Request("Subtract", "ok")
                /\ CellAt(racks', c[1], c[2], c[3]) = EmptyCell]_vars

\* the last two accepted mutations are an Add and the Subtract of the same
\* quantity of the same part on the same cell, which is empty again
C5_Witness ==
    /\ last = Request("Subtract", "ok")
    /\ Len(chron) >= 2
    /\ LET a == chron[Len(chron) - 1]
           b == chron[Len(chron)]
       IN  /\ a.Action = "Add"
           /\ b = [a EXCEPT !.Action = "Subtract"]
           /\ CellAt(racks, a.Rack, a.Row, a.Col) = EmptyCell

\* the accepted mutation recorded by a history entry
EventOf(e) == Event(e.Action, e.Rack, e.Row, e.Col, e.PartNo, e.Quantity)

\* C6: every accepted Add or Subtract puts exactly one entry into the history,
\* of the request's kind and with its rack, 1-based row and column, part and
\* quantity; a rejected one puts none; so the history is as long as the number
\* of accepted mutations.
C6_OneEventPerMutation ==
    [][/\ IF last'.op \in {"Add", "Subtract"} /\ last'.outcome = "ok"
            THEN /\ Len(chron') = Len(chron) + 1
                 /\ chron'[Len(chron')].Action = last'.op
                 /\ Len(history') = Len(history) + 1
                 /\ Tail(history') = history
                 /\ EventOf(history'[1]) = chron'[Len(chron')]
            ELSE /\ chron' = chron
                 /\ Len(history') = Len(history)
       /\ \A c \in CellInputs, p \in PartInputs, q \in QtyInputs :
            /\ ( /\ last' = Request("Add", "ok")
                 /\ EventOf(history'[1]) # Event("Add", c[1], c[2], c[3], p, q) )
               => ~Add("main", c[1], c[2], c[3], p, q)
            /\ ( /\ last' = Request("Subtract", "ok")
                 /\ EventOf(history'[1]) # Event("Subtract", c[1], c[2], c[3], p, q) )
               => ~Subtract("main", c[1], c[2], c[3], p, q)
       /\ Len(history') = Len(chron')]_vars

\* an accepted Subtract on the second row was recorded on top of earlier entries
C6_Witness ==
    /\ last = Request("Subtract", "ok")
    /\ Len(history) >= 2
    /\ EventOf(history[1]) = chron[Len(chron)]
    /\ history[1].Row = 2
    /\ history[1].Col = 1

\* C7: the history only grows: a step keeps every recorded entry, with all its
\* fields, in the same relative order, and at most adds entries in front.
C7_AppendOnly ==
    [][/\ Len(history') >= Len(history)
       /\ \A k \in 1..Len(history) :
            history'[k + Len(history') - Len(history)] = history[k]]_vars

C7_Witness ==
    /\ Len(history) = MaxHist
    /\ \E k \in 1..Len(history) : history[k].Action = "Subtract"

\* the grid obtained by applying one history entry
ReplayEntry(grid, e) ==
    IF ~ValidCoordinate(grid, e.Rack, e.Row, e.Col) THEN grid
    ELSE LET old == CellAt(grid, e.Rack, e.Row, e.Col)
         IN  CASE e.Action = "Add" ->
                    [grid EXCEPT ![e.Rack].array[e.Row - 1][e.Col - 1] =
                        [PartNo |-> e.PartNo, Quantity |-> old.Quantity + e.Quantity]]
               [] e.Action = "Subtract" ->
                    [grid EXCEPT ![e.Rack].array[e.Row - 1][e.Col - 1] =
                        IF old.Quantity = e.Quantity
                          THEN EmptyCell
                          ELSE [PartNo |-> old.PartNo,
                                Quantity |-> old.Quantity - e.Quantity]]
               [] OTHER -> grid

\* the entries hist[k], ..., hist[Len(hist)] replayed oldest first on empty racks
RECURSIVE ReplayFrom(_, _)
ReplayFrom(hist, k) ==
    IF k > Len(hist) THEN empty_racks
    ELSE ReplayEntry(ReplayFrom(hist, k + 1), hist[k])

\* C8: from empty racks and an empty history, after any Add and Subtract
\* requests, replaying the history oldest entry first on empty racks gives the
\* current racks.
C8_ReplayReproducesRacks ==
    initialized => ReplayFrom(history, 1) = racks

\* two cells hold stock, after a cell was emptied
C8_Witness ==
    /\ Len(history) = MaxHist
    /\ \E k \in 1..Len(history) : history[k].Action = "Subtract"
    /\ Cardinality({c \in CellCoords : CellAt(racks, c[1], c[2], c[3]).Quantity > 0}) = 2

Holds(rks, cell, part) ==
    /\ CellAt(rks, cell[1], cell[2], cell[3]).PartNo = part
    /\ CellAt(rks, cell[1], cell[2], cell[3]).Quantity > 0

CellOf(e) == <<e.Rack, e.Row, e.Col>>

CellRef(cell) == [Rack |-> cell[1], Row |-> cell[2], Col |-> cell[3]]

Min(S) == CHOOSE x \in S : \A y \in S : x <= y

\* the positions, in order of occurrence, of the Adds of part whose cell holds
\* part now
EligibleAdds(part) ==
    {k \in 1..Len(chron) :
        /\ chron[k].Action = "Add"
        /\ chron[k].PartNo = part
        /\ Holds(racks, CellOf(chron[k]), part)}

\* C9: FindPick(part) is the cell of the earliest Add of part whose cell now
\* holds part with a positive quantity, earlier Adds whose cell is now empty or
\* holds another part being skipped; it is NotFound exactly when there is no
\* such Add.
C9_FindPickEarliestEligible ==
    initialized =>
        \A p \in PartInputs :
            IF EligibleAdds(p) = {}
              THEN FindPick(racks, history, p) = NotFound
              ELSE FindPick(racks, history, p) = CellRef(CellOf(chron[Min(EligibleAdds(p))]))

\* the earliest Add of a part went to a cell that no longer holds it, and the
\* pick is the cell of a later Add
C9_Witness ==
    \E p \in PartInputs :
        /\ FindPick(racks, history, p) # NotFound
        /\ \E k \in 1..Len(chron) :
             /\ chron[k].Action = "Add"
             /\ chron[k].PartNo = p
             /\ ~Holds(racks, CellOf(chron[k]), p)
             /\ k < Min(EligibleAdds(p))

\* the quantity in cell after the first k accepted mutations
RECURSIVE QtyAfter(_, _)
QtyAfter(cell, k) ==
    IF k = 0 THEN 0
    ELSE QtyAfter(cell, k - 1)
         + (IF CellOf(chron[k]) # cell THEN 0
            ELSE IF chron[k].Action = "Add" THEN chron[k].Quantity
            ELSE 0 - chron[k].Quantity)

\* the position of the Add that put the first unit of its current stock into
\* cell: the cell was empty before it and has not been empty since
DepositIndex(cell) ==
    CHOOSE i \in 1..Len(chron) :
        /\ chron[i].Action = "Add"
        /\ CellOf(chron[i]) = cell
        /\ QtyAfter(cell, i - 1) = 0
        /\ \A j \in i..Len(chron) : QtyAfter(cell, j) > 0

\* the position of the first Add of part to cell, whatever became of its stock
FirstAddIndex(cell, part) ==
    Min({k \in 1..Len(chron) :
            /\ chron[k].Action = "Add"
            /\ chron[k].PartNo = part
            /\ CellOf(chron[k]) = cell})

Holders(part) == {c \in CellCoords : Holds(racks, c, part)}

PickCell(part) ==
    LET pick == FindPick(racks, history, part)
    IN  <<pick.Rack, pick.Row, pick.Col>>

\* C10 as stated: no cell holding the part has current stock deposited earlier
\* than the current stock of the cell FindPick returns, also after a cell was
\* emptied and refilled.
C10_PickHoldsOldestStock ==
    initialized =>
        \A p \in PartInputs :
            FindPick(racks, history, p) # NotFound
            => \A c \in Holders(p) : DepositIndex(PickCell(p)) <= DepositIndex(c)

\* C10 as amended: the cell FindPick returns holds the part, and among the
\* cells holding the part it is the one whose first Add of the part is the
\* earliest in the history, Adds whose stock has since been removed included;
\* FindPick is NotFound exactly when no cell holds the part.
C10_PickHoldsEarliestFirstAdd ==
    initialized =>
        \A p \in PartInputs :
            LET holders == Holders(p)
                picked  == PickCell(p)
                first   == FirstAddIndex(picked, p)
            IN  IF holders = {}
                  THEN FindPick(racks, history, p) = NotFound
                  ELSE /\ picked \in holders
                       /\ \A c \in holders : first <= FirstAddIndex(c, p)

\* the returned cell was emptied and refilled after another cell got the stock
\* it still holds
C10_Witness ==
    \E p \in PartInputs :
        /\ FindPick(racks, history, p) # NotFound
        /\ \E c \in Holders(p) : DepositIndex(c) < DepositIndex(PickCell(p))

----------------------------------------------------------------------------
(* Two sessions over one spreadsheet *)

\* a new spreadsheet that holds the part master and no other worksheet yet
StoreInput ==
    [open |-> TRUE, titles |-> {"part_master"}, part_master |-> SavedPartMaster,
     racks |-> <<>>, history |-> <<>>]

InitTwo == sh = StoreInput /\ faults = MaxFaultsTwo /\ Uninitialized

\* each session starts, logs in and adds to a cell of its own; the requests
\* of the two runs fall between each other in every order
NextTwo ==
    \/ \E s \in Sessions : SessionInit(s)
    \/ Login("main", "Kittu", "input123")
    \/ Login("peer", "Vishal", "master123")
    \/ Add("main", "A", 1, 1, "10283026", 20)
    \/ Add("peer", "A", 2, 1, "10291078", 20)
    \/ \E s \in Sessions : Requests(s, {"trimmed"})

SpecTwo == InitTwo /\ [][NextTwo]_vars

Rows(table) == {table[k] : k \in 1..Len(table)}

\* the session whose run made a request in the step
Requester(s) ==
    /\ run[s].calls # <<>>
    /\ run'[s].calls # run[s].calls

\* C11: two sessions over one spreadsheet are not coordinated.  The
\* spreadsheet changes only by a request of the write of one session, and
\* the request is for one worksheet: the others stay as they were.  A read
\* changes nothing; del_worksheet takes the worksheet away with all its
\* rows, whoever stored them; add_worksheet puts an empty one in its place;
\* set_with_dataframe enters the table of the session that writes, which is
\* made from its own state and not from what is stored, so that the new
\* worksheet holds that table and nothing else (entered in a worksheet that
\* the other session has filled meanwhile, it covers the first rows of it).
\* The witness is the lost update: an entry one session persisted is gone
\* from the stored racks and history after the other session saved.
C11_SaveReplacesTables ==
    [][/\ \A s \in Sessions :
            Requester(s) =>
              LET call == Head(run[s].calls)
                  df   == Frame(Session(s), call[2])
                  was  == sh[call[2]]
              IN  /\ \A other \in Worksheets \ {call[2]} :
                        /\ sh'[other] = sh[other]
                        /\ worksheet(sh', other) <=> worksheet(sh, other)
                  /\ call[1] \in {"worksheet", "get_as_dataframe"} => sh' = sh
                  /\ call[1] = "del_worksheet" =>
                        \/ sh' = sh
                        \/ ~worksheet(sh', call[2]) /\ sh'[call[2]] = <<>>
                  /\ ( /\ call[1] = "del_worksheet"
                       /\ run[s].handle = "held"
                       /\ faults' = faults ) => ~worksheet(sh', call[2])
                  /\ call[1] = "add_worksheet" =>
                        \/ sh' = sh
                        \/ /\ ~worksheet(sh, call[2])
                           /\ worksheet(sh', call[2])
                           /\ sh'[call[2]] = <<>>
                  /\ call[1] = "set_with_dataframe" =>
                        \/ sh' = sh
                        \/ /\ sh'.titles = sh.titles
                           /\ sh'[call[2]]
                                = df \o SubSeq(was, Len(df) + 1, Len(was))
                  /\ ( /\ call[1] = "set_with_dataframe"
                       /\ run[s].handle = "held"
                       /\ faults' = faults
                       /\ was = <<>> ) => sh'[call[2]] = df
       /\ (\A s \in Sessions : ~Requester(s)) => sh' = sh]_vars

\* no request failed; the first session persisted its entry, and the
\* spreadsheet now holds the racks and the history of the second session,
\* without the entry and with the cell empty
C11_Witness ==
    \E e \in persisted :
        /\ faults = MaxFaultsTwo
        /\ e \in Rows(history)
        /\ racks[e.Rack].array[e.Row - 1][e.Col - 1].Quantity = e.Quantity
        /\ peer.chron # <<>>
        /\ e \notin Rows(peer.history)
        /\ run["main"].calls = <<>>
        /\ run["peer"].calls = <<>>
        /\ sh.history = history_df(peer.history)
        /\ sh.racks = racks_df_from(peer.racks, Len(RackOrder))
        /\ history_df(<<e>>)[1] \notin Rows(sh.history)
        /\ load_racks(sh.racks)[e.Rack].array[e.Row - 1][e.Col - 1] = EmptyCell

----------------------------------------------------------------------------
(* Failures of the spreadsheet *)

\* the step is a request of a write of the session
WriteRequest ==
    /\ run["main"].calls # <<>>
    /\ run'["main"].calls # run["main"].calls
    /\ Head(run["main"].calls)[3] # "load_all_from_sheets"

\* C12: a failed write to the spreadsheet neither blocks nor undoes the
\* operation in the session.  An accepted Add or Subtract puts its entry in
\* front of the history and its content into the cell before any request is
\* made, also when the client could not be made.  Every request of the
\* writes that follow, served, failed or raised, leaves the history, the
\* racks and the part master of the session as they are; a write that
\* fails at add_worksheet or at set_with_dataframe returns False (its
\* worksheet is not among those written) and the run goes on with the
\* requests of the next write.  And after failures a request the racks
\* allow is still taken: the outcome of an Add or a Subtract is what the
\* racks of the session give.
C12_FailureKeepsSession ==
    [][/\ chron' # chron =>
            LET e == chron'[Len(chron')]
                c == racks'[e.Rack].array[e.Row - 1][e.Col - 1]
            IN  /\ Len(history') = Len(history) + 1
                /\ EventOf(history'[1]) = e
                /\ Tail(history') = history
                /\ c # racks[e.Rack].array[e.Row - 1][e.Col - 1]
                /\ racks' = [racks EXCEPT ![e.Rack].array[e.Row - 1][e.Col - 1] = c]
                /\ part_master' = part_master
                /\ last'.outcome = "ok"
       /\ WriteRequest =>
            LET calls == run["main"].calls
                call  == Head(calls)
            IN  /\ history' = history
                /\ racks' = racks
                /\ part_master' = part_master
                /\ chron' = chron
                /\ \E k \in 1..2 : run'["main"].calls = SubSeq(calls, k + 1, Len(calls))
                /\ ( \/ call[1] = "add_worksheet" /\ sh' = sh
                     \/ call[1] = "set_with_dataframe" /\ faults' < faults )
                     => call[2] \notin run'["main"].wrote
       /\ (faults < MaxFaults /\ last'.op = "Add") =>
            \E q \in QtyInputs :
                last'.outcome = AddOutcome(racks, "A", 1, 1, "10283026", q)
       /\ (faults < MaxFaults /\ last'.op = "Subtract") =>
            \E q \in QtyInputs :
                last'.outcome = SubtractOutcome(racks, "A", 1, 1, "10283026", q)]_vars

\* a request of the first of two accepted operations failed and its entry
\* was not persisted; the second was persisted
C12_Witness ==
    /\ Len(chron) >= 2
    /\ history[2] \notin persisted
    /\ history[1] \in persisted
    /\ faults < MaxFaults
    /\ run["main"].calls = <<>>

----------------------------------------------------------------------------
(* Cell weight *)

\* C13 as stated: the weight of a cell is quantity * (weight of its part in
\* the part master) + 25.0 when the quantity is positive and the part master
\* has the part, and 0 in every other case, a positive quantity of a part the
\* part master does not have included.
C13_CellWeight ==
    initialized =>
        \A x \in CellCoords :
            LET cell == racks[x[1]].array[x[2] - 1][x[3] - 1]
            IN  cell_total_weight(cell) =
                    IF cell.Quantity > 0 /\ cell.PartNo \in DOMAIN part_master.at
                      THEN cell.Quantity * part_master.at[cell.PartNo].Weight + 2500
                      ELSE 0

\* C13, amended: the weight of a cell is 0 when its quantity is 0 or it
\* holds no part; quantity * (weight of its part in the part master) + 25.0
\* when the quantity is positive and the part master has the part; and 25.0,
\* the packaging alone, when the quantity is positive and the part master
\* does not have the part.
C13_CellWeightOfUnknownPart ==
    initialized =>
        \A x \in CellCoords :
            LET cell == racks[x[1]].array[x[2] - 1][x[3] - 1]
                w    == cell_total_weight(cell)
            IN  /\ (cell.Quantity = 0 \/ cell.PartNo = None) => w = 0
                /\ (cell.Quantity > 0 /\ cell.PartNo \in DOMAIN part_master.at) =>
                      w = cell.Quantity * part_master.at[cell.PartNo].Weight + 2500
                /\ (cell.Quantity > 0 /\ cell.PartNo # None
                       /\ cell.PartNo \notin DOMAIN part_master.at) => w = 2500

\* one cell holds a part the part master has, another a part it does not have
C13_Witness ==
    /\ initialized
    /\ \E x \in CellCoords :
          LET cell == racks[x[1]].array[x[2] - 1][x[3] - 1]
          IN  /\ cell.Quantity > 0
              /\ cell.PartNo # None
              /\ cell.PartNo \notin DOMAIN part_master.at
              /\ cell_total_weight(cell) = PACKAGING_WEIGHT
    /\ \E x \in CellCoords :
          LET cell == racks[x[1]].array[x[2] - 1][x[3] - 1]
          IN  /\ cell.Quantity > 0
              /\ cell.PartNo \in DOMAIN part_master.at
              /\ cell_total_weight(cell) > PACKAGING_WEIGHT

----------------------------------------------------------------------------
(* Login, roles and permissions *)

\* every configured user and an unknown one, with every configured password
\* and a wrong one; names as typed, with blanks around them
AuthInputs ==
    {"Vishal", "Kittu", "1306764", "nobody", " Kittu ", "Vishal ", " "}
      \X {"master123", "input123", "output123", "wrong", ""}

NextAuth ==
    \/ SessionInit("main")
    \/ \E c \in AuthInputs : Login("main", c[1], c[2])
    \/ Logout("main")
    \/ \E t \in TimeInputs : Tick(t)
    \/ /\ Len(history) < MaxHistAuth
       /\ \E q \in QtyInputs : Add("main", "A", 1, 1, "10283026", q)
    \/ /\ Len(history) < MaxHistAuth
       /\ \E q \in QtyInputs : Subtract("main", "A", 1, 1, "10283026", q)

SpecAuth == Init /\ [][NextAuth]_vars

\* C14: the role of a logged-in session is master, input or output, and for
\* every value the role takes (None before a login included) the permissions
\* are nested: can_master implies can_input, and can_input implies can_output.
C14_PermissionsNested ==
    /\ logged_in => role \in {"master", "input", "output"}
    /\ can_master => can_input
    /\ can_input => can_output

\* a master is logged in and has all three permissions
C14_Witness ==
    /\ logged_in
    /\ role = "master"
    /\ can_master /\ can_input /\ can_output

\* C18: in every state, a logged-in session has a user of the user table and
\* that user's role, and a session that is not logged in has user and role
\* None.  Only a login whose password hash matches the user's sets them; a
\* login with an unknown user or a wrong password changes none of logged_in,
\* user and role; a logout resets the three.
C18_LoginState ==
    /\ [](/\ logged_in => (user \in DOMAIN USERS /\ role = USERS[user].role)
          /\ ~logged_in => (user = None /\ role = None))
    /\ [][/\ \A c \in AuthInputs :
                (Login("main", c[1], c[2]) /\ (strip(c[1]) \notin DOMAIN USERS
                                        \/ USERS[strip(c[1])].pw_hash # hash_pw(c[2])))
                  => UNCHANGED <<logged_in, user, role>>
          /\ (<<logged_in, user, role>>' # <<logged_in, user, role>> /\ logged_in') =>
                \E c \in AuthInputs :
                    /\ Login("main", c[1], c[2])
                    /\ strip(c[1]) \in DOMAIN USERS
                    /\ USERS[strip(c[1])].pw_hash = hash_pw(c[2])
                    /\ user' = strip(c[1])
                    /\ role' = USERS[strip(c[1])].role
          /\ Logout("main") => (~logged_in' /\ user' = None /\ role' = None)]_vars

\* the output user is logged in after other users have logged in and out
C18_Witness ==
    /\ logged_in
    /\ user = "1306764"
    /\ role = "output"
    /\ \E k \in 1..Len(history) : history[k].User = "Kittu"

----------------------------------------------------------------------------
(* PartCatalog *)

\* a plausible slip: the weight of a part the catalog has is added to
upsert_AddsWeight(pm, partId, weight, customer, dimension) ==
    dict_set(pm, partId,
             [Weight     |-> IF partId \in DOMAIN pm.at
                               THEN pm.at[partId].Weight + weight ELSE weight,
              Customer   |-> customer,
              TubeLength |-> dimension])

\* inserts the attributes of partId, or overwrites them
upsert(pm, partId, weight, customer, dimension) ==
    dict_set(pm, partId,
             [Weight |-> weight, Customer |-> customer, TubeLength |-> dimension])

\* the part, or absent
get(pm, partId) == IF partId \in DOMAIN pm.at THEN pm.at[partId] ELSE NotFound

\* a part of the defaults and a new one, each with two sets of attributes
UpsertInputs ==
    {"10283026", "10300001"} \X {805, 900} \X {"Mahindra Pune", "Tata Pune"}
      \X {1254}

\* a catalog change: mutate, log, persist
Upsert(s, partId, weight, customer, dimension) ==
    /\ Session(s).initialized
    /\ Session(s).logged_in
    /\ run[s].calls = <<>>
    /\ \E connect \in ConnectOutcomes(sh) :
         LET sheet == gspread_client_from_secrets(sh, connect)
             state == Session(s)
         IN  /\ Failures(<<connect>>) <= faults
             /\ faults' = faults - Failures(<<connect>>)
             /\ SetSession(s, [state EXCEPT
                    !.part_master = upsert(@, partId, weight, customer, dimension),
                    !.history = add_history(@, "MasterUpdate", "", 0, 0, partId, 0,
                                            state.user, "")])
             /\ run' = [run EXCEPT ![s].calls = mutation_calls(sheet)]
    /\ Report(s, [op |-> "Upsert", outcome |-> "ok",
                  args |-> <<partId, weight, customer, dimension>>,
                  repeated |-> (/\ last.op = "Upsert"
                                /\ last.args = <<partId, weight, customer, dimension>>)])
    /\ UNCHANGED <<sh, now, persisted, edits>>

NextCatalog ==
    \/ SessionInit("main")
    \/ Login("main", "Vishal", "master123")
    \/ Logout("main")
    \/ /\ Len(history) < MaxHistCatalog
       /\ \E a \in UpsertInputs : Upsert("main", a[1], a[2], a[3], a[4])

SpecCatalog == Init /\ [][NextCatalog]_vars

CatalogParts == {"10283026", "10291078", "10282069", "10300001"}

\* C15: catalog upsert is idempotent.  When upsert(partId, weight, customer,
\* dimension) is performed again with the arguments of the upsert just
\* before it, get(partId) and get of every other part are as they were after
\* the first one; and after every upsert, one more with the same arguments
\* would change no entry.
C15_UpsertIdempotent ==
    [][\A a \in UpsertInputs :
          Upsert("main", a[1], a[2], a[3], a[4]) =>
            /\ (last.op = "Upsert" /\ last.args = a) =>
                  \A p \in CatalogParts : get(part_master', p) = get(part_master, p)
            /\ \A p \in CatalogParts :
                  get(upsert(part_master', a[1], a[2], a[3], a[4]), p)
                    = get(part_master', p)
            /\ get(part_master', a[1])
                  = [Weight |-> a[2], Customer |-> a[3], TubeLength |-> a[4]]]_vars

\* a new part was upserted twice in a row with the same arguments
C15_Witness ==
    /\ last.op = "Upsert"
    /\ last.repeated
    /\ last.args[1] = "10300001"
    /\ get(part_master, "10300001")
          = [Weight |-> last.args[2], Customer |-> last.args[3],
             TubeLength |-> last.args[4]]
    /\ Len(history) >= 2
    /\ history[1].Action = "MasterUpdate"
    /\ history[2].Action = "MasterUpdate"

----------------------------------------------------------------------------
(* The shape of the racks *)

\* the racks row names a cell of rack r
NamesCell(row, r, i, j) ==
    /\ strip(py_str(row.Rack)) = r
    /\ row.Row = <<i>>
    /\ row.Col = <<j>>

\* the racks row names a cell of some rack
NamesSomeCell(row) == \E x \in CellCoords : NamesCell(row, x[1], x[2], x[3])

\* the racks have the shape of the static table
Shaped(rks) ==
    /\ DOMAIN rks = DOMAIN RACK_SPACES
    /\ \A r \in DOMAIN rks :
          /\ rks[r].rows = 3
          /\ rks[r].cols * 3 >= RACK_SPACES[r]
          /\ (rks[r].cols - 1) * 3 < RACK_SPACES[r]
          /\ rks[r].spaces = RACK_SPACES[r]
          /\ DOMAIN rks[r].array = 0..2
          /\ \A i \in 0..2 :
                /\ DOMAIN rks[r].array[i] = 0..(rks[r].cols - 1)
                /\ \A j \in 0..(rks[r].cols - 1) :
                      DOMAIN rks[r].array[i][j] = {"PartNo", "Quantity"}

\* the step ends the read of the racks worksheet
RacksRead ==
    /\ run["main"].calls # <<>>
    /\ run'["main"].calls # run["main"].calls
    /\ Head(run["main"].calls)[2] = "racks"
    /\ Head(run["main"].calls)[3] = "load_all_from_sheets"
    /\ (run'["main"].calls = <<>> \/ Head(run'["main"].calls)[2] # "racks")

\* C16: once the session is initialized, from the defaults or from the
\* spreadsheet, and after every later operation, the racks are those of the
\* static table and each has 3 rows of ceil(slots / 3) columns, every cell
\* being there.  Loading adds, removes and resizes nothing: the rows of the
\* racks worksheet whose rack is unknown, or whose row or column is blank or
\* out of bounds, change no cell, so that a cell no row of the worksheet
\* names is empty in the racks the read gives, which are the racks the
\* session starts with.
C16_RackShape ==
    /\ [](initialized => Shaped(racks))
    /\ [][/\ RacksRead =>
               /\ Shaped(run'["main"].got.racks)
               /\ \A x \in CellCoords :
                     (\A k \in 1..Len(sh.racks) :
                         ~NamesCell(sh.racks[k], x[1], x[2], x[3]))
                       => run'["main"].got.racks[x[1]].array[x[2] - 1][x[3] - 1]
                            = EmptyCell
          /\ (~initialized /\ initialized') =>
               \/ racks' = empty_racks
               \/ /\ run["main"].calls # <<>>
                  /\ racks' = run["main"].got.racks]_vars

\* the racks worksheet holds rows of an unknown rack and rows out of bounds,
\* the session has loaded it and has since changed a cell
C16_Witness ==
    /\ initialized
    /\ chron # <<>>
    /\ \E k \in 1..Len(sh.racks) : sh.racks[k].Rack = "Z"
    /\ \E k \in 1..Len(sh.racks) :
          sh.racks[k].Rack = "A" /\ sh.racks[k].Row = <<4>>
    /\ \E k \in 1..Len(sh.racks) :
          sh.racks[k].Rack = "A" /\ sh.racks[k].Row = <<0>>
    /\ \A k \in 1..Len(sh.racks) :
          sh.racks[k].PartNo = "10283026" => ~NamesSomeCell(sh.racks[k])
    /\ Len(history) = Len(chron) + 1

----------------------------------------------------------------------------
(* The order of the history *)

\* a spreadsheet without worksheets yet
NewSheet ==
    [open |-> TRUE, titles |-> {}, part_master |-> <<>>, racks |-> <<>>,
     history |-> <<>>]

\* the racks of the defaults with 5 of the part 10283026 in the cell A/1/1,
\* and the history with the entry of that Add
OneAddRacks ==
    [empty_racks EXCEPT
        !["A"].array[0][0] = [PartNo |-> "10283026", Quantity |-> 5]]

OneAddHistory ==
    <<[Timestamp |-> <<0>>, User |-> "Kittu", Action |-> "Add", Rack |-> "A",
       Row |-> 1, Col |-> 1, PartNo |-> "10283026", Quantity |-> 5,
       Note |-> ""]>>

\* the spreadsheet as save_all_to_sheets wrote it for a session that started
\* from the defaults: the three parts of the default part master, a row for
\* every cell of every rack, and the entry
SavedStore == save_all_to_sheets(NewSheet, default_pm, OneAddRacks, OneAddHistory)

\* no request of this session fails
InitStore == sh = SavedStore /\ faults = 0 /\ Uninitialized

NextStore ==
    \/ SessionInit("main")
    \/ Login("main", "Kittu", "input123")
    \/ \E t \in TimeInputs : Tick(t)
    \/ /\ Len(chron) < MaxOpsStore
       /\ Add("main", "A", 2, 1, "10283026", 5)
    \/ /\ Len(chron) < MaxOpsStore
       /\ Subtract("main", "A", 2, 1, "10283026", 5)
    \/ Requests("main", {"trimmed", "padded"})
    \/ Edit

SpecStore == InitStore /\ [][NextStore]_vars

\* two values name the same part or user: they are equal, or they are the
\* same number, whatever the type the sheet gives it
SameName(a, b) == a = b \/ (NumberOf(a) # {} /\ NumberOf(a) = NumberOf(b))

\* two entries say that the same thing happened.  The timestamp is left
\* out: the order of the list does not rest on it
SameOccurrence(e, f) ==
    /\ e.Action = f.Action /\ e.Rack = f.Rack /\ e.Row = f.Row
    /\ e.Col = f.Col /\ e.Quantity = f.Quantity /\ e.Note = f.Note
    /\ SameName(e.PartNo, f.PartNo) /\ SameName(e.User, f.User)

\* an entry says what an accepted operation did
RecordOf(e, ev) ==
    /\ e.Action = ev.Action /\ e.Rack = ev.Rack /\ e.Row = ev.Row
    /\ e.Col = ev.Col /\ e.Quantity = ev.Quantity
    /\ SameName(e.PartNo, ev.PartNo)

\* the history a session loads from a history worksheet
LoadedFrom(table, read) ==
    load_history(get_as_dataframe(table, "history", read = "padded"))

\* the history a session loads from the worksheet that holds hist
Reloaded(hist, read) == LoadedFrom(history_df(hist), read)

\* the step is the last request of save_all_to_sheets, served: the history
\* is entered in its worksheet
HistorySaved ==
    /\ run["main"].calls
         = <<<<"set_with_dataframe", "history", "save_all_to_sheets">>>>
    /\ run["main"].handle = "held"
    /\ run'["main"].calls = <<>>
    /\ faults' = faults

\* saving hist and loading it again gives the same occurrences at the same
\* indices, whether or not the read returns the blank rows of the grid
\* (they come after the last entry)
SameAfterReload(hist) ==
    \A read \in {"trimmed", "padded"} :
        \A loaded \in {Reloaded(hist, read)} :
            /\ Len(loaded) >= Len(hist)
            /\ \A k \in 1..Len(hist) : SameOccurrence(loaded[k], hist[k])

\* C17: the history is ordered by occurrence, newest first.  The entries the
\* session has recorded are at the front, the entry of a later add_history
\* call before the entry of every earlier one, and the entries loaded at
\* the start stay behind them in their order; so the list read from last to
\* first is in order of occurrence.  Saving the history and loading it again
\* gives the same occurrences (user, action, cell, part, quantity and note,
\* the numbers whatever their type) at the same indices, for the history
\* the session starts with and for every history a step makes of it; and
\* what a session would load from the worksheet, once the requests of a
\* save have been served, has the accepted operations of this session in
\* front, the latest first, and the entries of the history at their
\* indices.
C17_HistoryOrder ==
    /\ [](/\ Len(chron) <= Len(history)
          /\ \A k \in 1..Len(chron) :
                EventOf(history[k]) = chron[Len(chron) + 1 - k])
    /\ SameAfterReload(history)
    /\ [][/\ history' # history => SameAfterReload(history')
          /\ HistorySaved =>
                \A read \in {"trimmed", "padded"} :
                    \A loaded \in {LoadedFrom(sh'.history, read)} :
                        /\ Len(loaded) >= Len(history)
                        /\ \A k \in 1..Len(chron) :
                              RecordOf(loaded[k], chron[Len(chron) + 1 - k])
                        /\ \A k \in 1..Len(history) :
                              SameOccurrence(loaded[k], history[k])]_vars

\* two different operations were recorded in front of a loaded entry, the
\* later one when the clock had been set back, and the history was saved:
\* the worksheet holds it, and a session that loads it gets the part of the
\* latest entry as a number where this session holds the text
C17_Witness ==
    /\ Len(chron) >= 2
    /\ chron[1] # chron[2]
    /\ history[1].Timestamp[1] < history[2].Timestamp[1]
    /\ Len(history) > Len(chron)
    /\ run["main"].calls = <<>>
    /\ sh.history = history_df(history)
    /\ LoadedFrom(sh.history, "trimmed")[1].PartNo # history[1].PartNo
    /\ Len(LoadedFrom(sh.history, "padded")) > Len(history)

----------------------------------------------------------------------------
(* Save and load *)

\* what load_all_from_sheets returns once save_all_to_sheets has written the
\* three worksheets of the session's data
SavedAndLoaded(pm_read, racks_read, hist_read) ==
    load_all_from_sheets(
        save_all_to_sheets(sh, part_master, racks, history),
        pm_read, racks_read, hist_read)

\* C19: save followed by load is a round trip.  In every state of a session
\* over a spreadsheet whose cells satisfy the cell invariant, saving with the
\* three writes succeeding and then loading, with no read failing, gives
\* racks with the same part and quantity in every cell and a history with
\* the same events in the same order.
C19_SaveLoadRoundTrip ==
    (initialized /\ sh.open /\ C1_CellInvariant) =>
        \A pm_read \in {"trimmed", "padded"}, racks_read \in {"trimmed", "padded"},
           hist_read \in {"trimmed", "padded"} :
            LET loaded == SavedAndLoaded(pm_read, racks_read, hist_read)
            IN  /\ \A x \in CellCoords :
                      CellAt(loaded.racks, x[1], x[2], x[3])
                        = CellAt(racks, x[1], x[2], x[3])
                /\ Len(loaded.history) = Len(history)
                /\ \A k \in 1..Len(history) :
                      EventOf(loaded.history[k]) = EventOf(history[k])

====
